---- MODULE Spec2Model ----
(***************************************************************************)
(* AssetExtract.py: main() parses the command line and calls               *)
(* unpack_all_assets(source_in, dest_out), which walks the input tree,     *)
(* loads every file whose name contains "ASTC" and writes its Texture2D,   *)
(* Sprite, TextAsset and MonoBehaviour objects below the output directory. *)
(*                                                                         *)
(* A Python str is a sequence of one-character strings, so that `in`,      *)
(* upper(), lower() and the os.path functions are computed on the          *)
(* characters as posixpath computes them.                                  *)
(***************************************************************************)
EXTENDS Integers, Sequences, FiniteSets, TLC

(* ------------------------------------------------------------------ *)
(* Strings                                                            *)
(* ------------------------------------------------------------------ *)

\* str
Str == Seq(STRING)

LowerLetters == <<"a","b","c","d","e","f","g","h","i","j","k","l","m",
                  "n","o","p","q","r","s","t","u","v","w","x","y","z">>

UpperLetters == <<"A","B","C","D","E","F","G","H","I","J","K","L","M",
                  "N","O","P","Q","R","S","T","U","V","W","X","Y","Z">>

Letters == 1..Len(LowerLetters)

\* the letters str.upper() changes, each with what it becomes
UpperOf == [c \in { LowerLetters[i] : i \in Letters } |->
              UpperLetters[CHOOSE i \in Letters : LowerLetters[i] = c]]

\* the letters str.lower() changes, each with what it becomes
LowerOf == [c \in { UpperLetters[i] : i \in Letters } |->
              LowerLetters[CHOOSE i \in Letters : UpperLetters[i] = c]]

\* str.upper() on one character
CharUpper(c) == IF c \in DOMAIN UpperOf THEN UpperOf[c] ELSE c

\* str.lower() on one character
CharLower(c) == IF c \in DOMAIN LowerOf THEN LowerOf[c] ELSE c

\* str.upper()
upper[s \in Str] == [i \in 1..Len(s) |-> CharUpper(s[i])]

\* str.lower()
lower[s \in Str] == [i \in 1..Len(s) |-> CharLower(s[i])]

\* pat in s
Contains[pat \in Str, s \in Str] ==
  \E i \in 1..(Len(s) + 1) :
     /\ i + Len(pat) - 1 <= Len(s)
     /\ SubSeq(s, i, i + Len(pat) - 1) = pat

\* s.rfind(c) + 1: the 1-based index of the last c in s, 0 when there is none
RFind[s \in Str, c \in STRING] ==
  LET at == { i \in 1..Len(s) : s[i] = c }
  IN  IF at = {} THEN 0 ELSE CHOOSE i \in at : \A j \in at : j <= i

\* str(n) of one decimal digit
Digit(d) == <<"0","1","2","3","4","5","6","7","8","9">>[d + 1]

\* str(n) of a natural number
NatStr[n \in Nat] == IF n < 10 THEN <<Digit(n)>> ELSE NatStr[n \div 10] \o <<Digit(n % 10)>>

\* str(n) of an int, as the f-string at line 157 formats path_id
IntStr[n \in Int] == IF n < 0 THEN <<"-">> \o NatStr[0 - n] ELSE NatStr[n]

(* ------------------------------------------------------------------ *)
(* os.path (posixpath)                                                *)
(* ------------------------------------------------------------------ *)

SEP == "/"

isabs[p \in Str] == Len(p) > 0 /\ p[1] = SEP

\* os.path.join(a, b)
join[a \in Str, b \in Str] ==
  IF isabs[b] THEN b
  ELSE IF Len(a) = 0 \/ a[Len(a)] = SEP THEN a \o b
  ELSE a \o <<SEP>> \o b

\* os.path.basename(p)
basename[p \in Str] == SubSeq(p, RFind[p, SEP] + 1, Len(p))

\* s.rstrip("/")
RStripSep[s \in Str] ==
  LET keep == { i \in 1..Len(s) : s[i] # SEP }
  IN  IF keep = {} THEN <<>> ELSE SubSeq(s, 1, CHOOSE i \in keep : \A j \in keep : j <= i)

\* os.path.dirname(p)
dirname[p \in Str] ==
  LET head == SubSeq(p, 1, RFind[p, SEP])
  IN  IF Len(head) > 0 /\ \E i \in 1..Len(head) : head[i] # SEP
      THEN RStripSep[head]
      ELSE head

\* os.path.splitext(p): <<root, ext>>; the leading dots of the last
\* component are not an extension
splitext[p \in Str] ==
  LET sepIndex == RFind[p, SEP]
      dotIndex == RFind[p, "."]
  IN  IF /\ dotIndex > sepIndex
         /\ \E k \in (sepIndex + 1)..(dotIndex - 1) : p[k] # "."
      THEN <<SubSeq(p, 1, dotIndex - 1), SubSeq(p, dotIndex, Len(p))>>
      ELSE <<p, <<>>>>

\* p.split("/"): component k lies between the (k-1)th and the kth separator
Split[p \in Str] ==
  LET cut(k) == IF k = 0 THEN 0
                ELSE IF k > Cardinality({ i \in 1..Len(p) : p[i] = SEP }) THEN Len(p) + 1
                ELSE CHOOSE i \in 1..Len(p) :
                        /\ p[i] = SEP
                        /\ Cardinality({ j \in 1..i : p[j] = SEP }) = k
  IN  [k \in 1..(Cardinality({ i \in 1..Len(p) : p[i] = SEP }) + 1) |->
         SubSeq(p, cut(k - 1) + 1, cut(k) - 1)]

DOTDOT == <<".", ".">>

\* one turn of the loop of normpath: "" and "." are dropped and ".." removes
\* the component before it (and is dropped at the root)
NormStep(acc, c, rooted) ==
  IF c = <<>> \/ c = <<".">> THEN acc
  ELSE IF c # DOTDOT
          \/ (~rooted /\ acc = <<>>)
          \/ (acc # <<>> /\ acc[Len(acc)] = DOTDOT)
       THEN Append(acc, c)
  ELSE IF acc # <<>> THEN SubSeq(acc, 1, Len(acc) - 1)
  ELSE acc

\* the loop of normpath over the components
NormComps[comps \in Seq(Str), rooted \in BOOLEAN] ==
  LET f[k \in 0..Len(comps)] == IF k = 0 THEN <<>> ELSE NormStep(f[k - 1], comps[k], rooted)
  IN  f[Len(comps)]

\* "/".join(comps)
JoinComps[comps \in Seq(Str)] ==
  LET f[k \in 0..Len(comps)] ==
        IF k = 0 THEN <<>>
        ELSE IF k = 1 THEN comps[1]
        ELSE f[k - 1] \o <<SEP>> \o comps[k]
  IN  f[Len(comps)]

\* os.path.normpath(p)
normpath[p \in Str] ==
  IF p = <<>> THEN <<".">>
  ELSE LET slashes == IF ~isabs[p] THEN 0
                      ELSE IF Len(p) >= 2 /\ p[2] = SEP /\ ~(Len(p) >= 3 /\ p[3] = SEP)
                           THEN 2 ELSE 1
           body    == JoinComps[NormComps[Split[p], slashes > 0]]
           lead    == [i \in 1..slashes |-> SEP]
       IN  IF lead \o body = <<>> THEN <<".">> ELSE lead \o body

\* os.getcwd()
getcwd == <<"/", "w">>

\* abspath without the normalisation
abspathJoined(p) == IF isabs[p] THEN p ELSE join[getcwd, p]

\* os.path.abspath(p)
abspath(p) == normpath[IF isabs[p] THEN p ELSE join[getcwd, p]]

(* ------------------------------------------------------------------ *)
(* The external library: what UnityPy.load returns                    *)
(* ------------------------------------------------------------------ *)

\* obj.type.name of the four types the script extracts, in the order of
\* its four passes (lines 80, 100, 120, 149)
PassType == <<"Texture2D", "Sprite", "TextAsset", "MonoBehaviour">>

Passes == 1..Len(PassType)

\* the directory literal of each pass (lines 89, 109, 129, 158)
TypeDir == <<<<"T","e","x","t","u","r","e","2","D">>, <<"S","p","r","i","t","e">>, <<"T","e","x","t","A","s","s","e","t">>, <<"M","o","n","o","B","e","h","a","v","i","o","u","r">>>>

\* the extension each pass gives its files (lines 94, 114, 134, 158)
TypeExt == <<<<".","p","n","g">>, <<".","p","n","g">>, <<".","t","x","t">>, <<".","j","s","o","n">>>>

MONO_ == <<"M","O","N","O","_">>

Obj(t, id, nodes, named, name) ==
  [type |-> t, path_id |-> id, nodes |-> nodes, named |-> named, m_Name |-> name]

Item(path, obj) == [path |-> path, obj |-> obj]

\* a bundle with one object of every type, a MonoBehaviour without typetree
\* nodes, and asset paths with directories and extensions; the container
\* also names the first MonoBehaviour
EnvA ==
  [objects   |-> << Obj("Texture2D", 1, FALSE, FALSE, <<>>),
                    Obj("Sprite", 2, FALSE, FALSE, <<>>),
                    Obj("TextAsset", 3, FALSE, FALSE, <<>>),
                    Obj("MonoBehaviour", 4, TRUE, TRUE, <<"C","f","g">>),
                    Obj("MonoBehaviour", 5, FALSE, TRUE, <<"C","f","g">>) >>,
   container |-> << Item(<<"a","/","a","s","t","c",".","p","n","g">>, 1),
                    Item(<<"b","/","x",".","p","n","g">>, 2),
                    Item(<<"t","/","x",".","b","y","t","e","s">>, 3),
                    Item(<<"m","/","d","a","t","a",".","a","s","s","e","t">>, 4) >>]

\* a bundle whose two TextAssets share a destination with each other and with
\* the TextAsset of EnvA, with a MonoBehaviour whose m_Name holds path
\* separators and one without m_Name
EnvB ==
  [objects   |-> << Obj("TextAsset", 2, FALSE, FALSE, <<>>),
                    Obj("TextAsset", 3, FALSE, FALSE, <<>>),
                    Obj("MonoBehaviour", 4, TRUE, TRUE, <<".",".","/","T","e","x","t","u","r","e","2","D","/","X">>),
                    Obj("MonoBehaviour", 0 - 7, TRUE, FALSE, <<>>) >>,
   container |-> << Item(<<"t","/","x",".","t","x","t">>, 1),
                    Item(<<"u","/","X",".","j","s","o","n">>, 2) >>]

\* what the loader makes of a file that is no bundle: no objects
EnvNone == [objects |-> <<>>, container |-> <<>>]

Env(id) == CASE id = "A" -> EnvA [] id = "B" -> EnvB [] OTHER -> EnvNone

(* ------------------------------------------------------------------ *)
(* The file system                                                    *)
(* ------------------------------------------------------------------ *)

NoSrc == [file |-> <<>>, env |-> "none", pass |-> 0, idx |-> 0]

\* a file that was there before the run: a bundle (env "A" or "B") or
\* anything else (env "none")
Original(id) == [kind |-> "original", env |-> id, src |-> NoSrc, full |-> TRUE]

\* a file the run wrote: which object it holds and whether the write finished
Written(p, src, full) == [kind |-> PassType[p], env |-> "none", src |-> src, full |-> full]

File(path, content) == [path |-> path, content |-> content]

\* the files a tree can hold before the run
InASTC       == File(<<"/","w","/","i","n","/","A","S","T","C">>, Original("A"))
InResources  == File(<<"/","w","/","i","n","/","A","S","T","C","_","R","e","s","o","u","r","c","e","s">>, Original("A"))
InMetadata   == File(<<"/","w","/","i","n","/","d","/","m","e","t","a","d","a","t","a","_","A","S","T","C">>, Original("A"))
InBoth       == File(<<"/","w","/","i","n","/","d","/","A","S","T","C","_","r","e","s","o","u","r","c","e","s","_","M","e","t","a","D","a","t","a">>, Original("A"))
InLowerCase  == File(<<"/","w","/","i","n","/","A","S","T","C","_","d","/","a","s","t","c">>, Original("B"))
OutData      == File(<<"/","w","/","o","u","t","/","_","_","d","a","t","a">>, Original("A"))
InB          == File(<<"/","w","/","i","n","/","B","_","A","S","T","C">>, Original("B"))
OldOutput    == File(<<"/","w","/","T","e","x","t","u","r","e","2","D","/","A","S","T","C",".","p","n","g">>, Original("none"))

\* the trees the script is run on: two bundles that produce the same output
\* name; file names with "resources", with "metadata", with both and with
\* neither; a file whose directory but not whose name holds "ASTC"; loose
\* files under the output and the output of an earlier run; an empty tree
Trees ==
  { {InMetadata, InB},
    {InResources, InBoth},
    {InASTC, InLowerCase},
    {InResources, OutData, OldOutput},
    {} }

BaseDirs == { <<"/","w">>, <<"/","w","/","i","n">>, <<"/","w","/","o","u","t">> }

\* the directories on the way to d, d included, as makedirs creates them
Ancestors[d \in Str] ==
  { normpath[SubSeq(d, 1, i)] :
      i \in { k \in 1..Len(d) : k = Len(d) \/ (d[k + 1] = SEP /\ d[k] # SEP) } }

\* the command lines of main: no -file, a -file pair, or -file with a
\* number of values argparse rejects
NoArgs == [given |-> "none", in |-> <<>>, out |-> <<>>]

Pair(i, o) == [given |-> "pair", in |-> i, out |-> o]

BadArgs == [given |-> "bad", in |-> <<"i","n">>, out |-> <<>>]

ArgvSet ==
  { NoArgs,
    Pair(<<"i","n">>, <<"o","u","t">>),
    Pair(<<"i","n","/",".","/">>, <<"/","w","/","i","n","/",".",".","/","i","n","/","d","/">>),
    BadArgs }


(* ------------------------------------------------------------------ *)
(* Bounds                                                             *)
(* ------------------------------------------------------------------ *)

\* how many exceptions the library and the file system raise in one run
MaxFaults == 1

\* how many files one run may reach in its inner loop: more than any of the
\* trees needs, so that a walk that reaches it is a walk that does not end
MaxVisits == 8

(* ------------------------------------------------------------------ *)
(* State                                                              *)
(* ------------------------------------------------------------------ *)

VARIABLES
  pc,                \* where the script is
  argv,              \* the command line
  tree,              \* the files of the tree before the run
  source_in,         \* main: line 36 / 41
  dest_out,          \* main: line 37 / 42
  calls,             \* the calls of unpack_all_assets: <<source, destination>>
  fsDirs,            \* the directories that exist
  fsFiles,           \* the files that exist: path -> content
  stack,             \* os.walk: the directories still to list
  root,              \* os.walk: the directory being yielded
  files,             \* the names of `files` the inner loop has not reached yet
  file_name,         \* line 61
  env,               \* line 73: which environment the loader returned
  extract_resources, \* line 77
  extract_metadata,  \* line 78
  passNo,            \* which of the four type passes is running
  idx,               \* the item of env.container / env.objects reached last
  astc_count,        \* line 55
  failed_files,      \* line 56
  visitLog,          \* every file the inner loop reached, in order
  loadLog,           \* every path handed to UnityPy.load, in order
  failLog,           \* every exception caught at line 168: the file, and where
  objLog             \* every object a pass entered its try block for

vars == <<pc, argv, tree, source_in, dest_out, calls, fsDirs, fsFiles, stack, root,
          files, file_name, env, extract_resources, extract_metadata, passNo,
          idx, astc_count, failed_files,
          visitLog, loadLog, failLog, objLog>>

mainVars == <<argv, tree, source_in, dest_out, calls>>
walkVars == <<stack, root, files>>
fileVars == <<file_name, env, extract_resources, extract_metadata, passNo, idx>>
fsVars   == <<fsDirs, fsFiles>>
counters == <<astc_count, failed_files>>
logs     == <<visitLog, loadLog, failLog, objLog>>

ASTC == <<"A","S","T","C">>

\* the injected exceptions so far: those caught at file level, and the
\* object outcomes other than success and "no typetree nodes"
Faults ==
  Len(failLog)
  + Cardinality({ i \in 1..Len(objLog) : objLog[i].outcome \notin {"ok", "nonodes"} })

CanFault == Faults < MaxFaults

SetToSeqs(S) ==
  { s \in [1..Cardinality(S) -> S] : \A i, j \in 1..Cardinality(S) : s[i] = s[j] => i = j }

Init ==
  /\ pc = "main"
  /\ argv \in ArgvSet
  /\ tree \in Trees
  /\ fsFiles = [p \in { f.path : f \in tree } |-> (CHOOSE f \in tree : f.path = p).content]
  /\ fsDirs = BaseDirs \cup UNION { Ancestors[dirname[f.path]] : f \in tree }
  /\ source_in = <<>>
  /\ dest_out = <<>>
  /\ calls = <<>>
  /\ stack = <<>>
  /\ root = <<>>
  /\ files = {}
  /\ file_name = <<>>
  /\ env = "none"
  /\ extract_resources = FALSE
  /\ extract_metadata = FALSE
  /\ passNo = 0
  /\ idx = 0
  /\ astc_count = 0
  /\ failed_files = 0
  /\ visitLog = <<>>
  /\ loadLog = <<>>
  /\ failLog = <<>>
  /\ objLog = <<>>

(* ------------------------------------------------------------------ *)
(* main                                                               *)
(* ------------------------------------------------------------------ *)

\* lines 29-33: argparse exits with a usage error unless -file is absent or
\* has exactly two values
ParseError ==
  /\ pc = "main"
  /\ argv.given = "bad"
  /\ pc' = "usage"
  /\ UNCHANGED <<mainVars, walkVars, fileVars, fsVars, counters, logs>>

\* lines 35-51 and 54-59: the pair of directories, the call, the counters
\* and the start of os.walk
Main ==
  /\ pc = "main"
  /\ argv.given # "bad"
  /\ source_in' = IF argv.given = "pair" THEN abspath(argv.in) ELSE getcwd
  /\ dest_out' = IF argv.given = "pair" THEN abspath(argv.out) ELSE getcwd
  /\ calls' = Append(calls, <<source_in', dest_out'>>)
  /\ astc_count' = 0
  /\ failed_files' = 0
  /\ stack' = <<source_in'>>
  /\ pc' = "walk"
  /\ UNCHANGED <<argv, tree, root, files, fileVars, fsVars, logs>>

(* ------------------------------------------------------------------ *)
(* unpack_all_assets: the walk                                        *)
(* ------------------------------------------------------------------ *)

\* os.walk: the names of the files of a directory
FileNames(top) == { basename[f] : f \in { g \in DOMAIN fsFiles : dirname[g] = top } }

\* a listing that holds the directory itself, as "." would
SubDirsWithSelf(top) == { d \in fsDirs : d = top \/ dirname[d] = top }

\* os.walk: the subdirectories of a directory
SubDirs(top) == { d \in fsDirs : d # top /\ dirname[d] = top }

\* line 59, os.walk top-down: the next directory is listed as it is now, in
\* whatever order the system gives, and its subdirectories are walked after
\* its files and before the directories that were already waiting
WalkDir ==
  /\ pc = "walk"
  /\ stack # <<>>
  /\ LET top == Head(stack)
     IN  /\ root' = top
         /\ files' = IF top \in fsDirs THEN FileNames(top) ELSE {}
         /\ \E order \in SetToSeqs(IF top \in fsDirs THEN SubDirs(top) ELSE {}) :
               stack' = order \o Tail(stack)
  /\ pc' = "files"
  /\ UNCHANGED <<mainVars, fileVars, fsVars, counters, logs>>

\* lines 172-175: the walk is over and the summary is printed
Summary ==
  /\ pc = "walk"
  /\ stack = <<>>
  /\ pc' = "done"
  /\ UNCHANGED <<mainVars, walkVars, fileVars, fsVars, counters, logs>>

\* the test without regard to case
MatchesAnyCase(name) == Contains[ASTC, upper[name]]

\* the test with the loose data files let through
MatchesOrData(name) == Contains[ASTC, name] \/ Contains[<<"_","_","d","a","t","a">>, name]

\* line 63
Matches(name) == Contains[ASTC, name]

\* lines 61-69: the next file of the directory; one that does not match is
\* passed over, one that does is counted
NextFile ==
  /\ pc = "files"
  /\ Len(visitLog) < MaxVisits
  /\ \E f \in files :
        /\ files' = files \ {f}
        /\ file_name' = f
        /\ visitLog' = Append(visitLog, join[root, f])
        /\ IF Matches(f)
           THEN /\ astc_count' = astc_count + 1
                /\ pc' = "load"
           ELSE /\ astc_count' = astc_count
                /\ pc' = "files"
  /\ UNCHANGED <<mainVars, stack, root, env, extract_resources, extract_metadata,
                 passNo, idx, fsVars, failed_files,
                 loadLog, failLog, objLog>>

\* line 61: the directory has no more files
FilesDone ==
  /\ pc = "files"
  /\ files = {}
  /\ pc' = "walk"
  /\ UNCHANGED <<mainVars, walkVars, fileVars, fsVars, counters, logs>>

\* line 69
file_path == join[root, file_name]

\* no handler around the file: the exception ends the run
FileFailedAborts(at) ==
  /\ failed_files' = failed_files + 1
  /\ failLog' = Append(failLog, [file |-> file_path, at |-> at])
  /\ pc' = "done"

\* lines 168-170: an exception reaches the handler of the file
FileFailed(at) ==
  /\ failed_files' = failed_files + 1
  /\ failLog' = Append(failLog, [file |-> file_path, at |-> at])
  /\ pc' = "files"

\* what line 73 is given: the path, and what the file holds at that moment
Loaded(ok) == [file |-> file_path, content |-> fsFiles[file_path], ok |-> ok]

\* line 76
file_name_lower == lower[file_name]

\* lines 73-78: the loader returns the environment of the file as it is now,
\* and the file name decides what is extracted
LoadOk ==
  /\ pc = "load"
  /\ loadLog' = Append(loadLog, Loaded(TRUE))
  /\ env' = fsFiles[file_path].env
  /\ extract_resources' = Contains[<<"r","e","s","o","u","r","c","e","s">>, file_name_lower]
  /\ extract_metadata' = Contains[<<"m","e","t","a","d","a","t","a">>, file_name_lower]
  /\ passNo' = 1
  /\ idx' = 0
  /\ pc' = "pass"
  /\ UNCHANGED <<mainVars, walkVars, file_name, fsVars, counters,
                 visitLog, failLog, objLog>>

\* line 73: the loader raises
LoadRaises ==
  /\ pc = "load"
  /\ CanFault
  /\ loadLog' = Append(loadLog, Loaded(FALSE))
  /\ FileFailed(0)
  /\ UNCHANGED <<mainVars, walkVars, fileVars, fsVars, astc_count, visitLog, objLog>>

(* ------------------------------------------------------------------ *)
(* unpack_all_assets: the four passes over one file                   *)
(* ------------------------------------------------------------------ *)

\* the MonoBehaviour pass guarded like the TextAsset pass
SelectedMonoWithMetadata(p, res, meta) ==
  CASE p \in {1, 2} -> res \/ ~(res \/ meta)
    [] OTHER        -> meta \/ ~(res \/ meta)

\* lines 81, 101, 121, 150
Selected(p, res, meta) ==
  CASE p \in {1, 2} -> res \/ ~(res \/ meta)
    [] p = 3        -> meta \/ ~(res \/ meta)
    [] OTHER        -> ~(res \/ meta)

\* lines 82, 102, 122 (env.container.items()) and 151 (env.objects)
Items(e, p) ==
  IF p = 4
  THEN [i \in 1..Len(Env(e).objects) |-> [path |-> <<>>, obj |-> i]]
  ELSE Env(e).container

\* the items of the running pass that its type test lets through and that
\* the loop has not reached yet
Pending ==
  { k \in (idx + 1)..Len(Items(env, passNo)) :
      Env(env).objects[Items(env, passNo)[k].obj].type = PassType[passNo] }

\* lines 81, 101, 121, 150: the pass is not selected by the file name; after
\* the fourth pass the file is finished
PassSkip ==
  /\ pc = "pass"
  /\ \/ /\ passNo \in Passes
        /\ ~Selected(passNo, extract_resources, extract_metadata)
        /\ passNo' = passNo + 1
        /\ pc' = "pass"
     \/ /\ passNo \notin Passes
        /\ passNo' = 0
        /\ pc' = "files"
  /\ UNCHANGED <<mainVars, walkVars, file_name, env, extract_resources, extract_metadata,
                 idx, fsVars, counters, logs>>

\* lines 82, 102, 122, 151: env.container / env.objects raises: outside the
\* try of any object, so the handler of the file takes it
PassRaises ==
  /\ pc = "pass"
  /\ passNo \in Passes
  /\ Selected(passNo, extract_resources, extract_metadata)
  /\ idx = 0
  /\ CanFault
  /\ FileFailed(passNo)
  /\ UNCHANGED <<mainVars, walkVars, fileVars, fsVars, astc_count, visitLog,
                 loadLog, objLog>>

\* lines 82-83, 102-103, 122-123, 151-152: the loop of the pass has no object
\* of its type left, and the next pass starts
PassEnd ==
  /\ pc = "pass"
  /\ passNo \in Passes
  /\ Selected(passNo, extract_resources, extract_metadata)
  /\ Pending = {}
  /\ passNo' = passNo + 1
  /\ idx' = 0
  /\ UNCHANGED <<mainVars, walkVars, file_name, env, extract_resources, extract_metadata,
                 pc, fsVars, counters, logs>>

\* the extension appended without the old one being split off
AssetDestKeepsExt(p, path) ==
  LET filename == upper[basename[path]]
      dest     == join[join[dest_out, TypeDir[p]], filename]
  IN  <<dirname[dest], dest \o TypeExt[p]>>

\* lines 87-94, 107-114, 127-134: <<the directory made, the file written>>
\* of an object of the container
AssetDest(p, path) ==
  LET filename == upper[basename[path]]
      dest     == join[join[dest_out, TypeDir[p]], filename]
  IN  <<dirname[dest], splitext[dest][1] \o TypeExt[p]>>

\* lines 157-159: <<the directory made, the file written>> of a MonoBehaviour
MonoDest(o) ==
  LET filename == IF o.named THEN o.m_Name ELSE MONO_ \o IntStr[o.path_id]
      dest     == join[join[dest_out, TypeDir[4]], filename \o TypeExt[4]]
  IN  <<dirname[dest], dest>>

Dest(p, item) ==
  IF p = 4 THEN MonoDest(Env(env).objects[item.obj]) ELSE AssetDest(p, item.path)

\* what an object's try block can end in. "ok": the file is written.
\* "nonodes": line 164. "read": obj.read() / read_typetree() raises, before
\* anything is made. "data": data.image raises, after makedirs. "write": the
\* save, write or dump raises after the file was opened, and what was
\* written until then stays. "removed": the same, but image.save removes a
\* file it had created itself. "uni_ok", "uni_err": lines 138-145,
\* UnicodeEncodeError and the second attempt
Outcomes(p, o) ==
  CASE p \in {1, 2} -> {"ok", "read", "data", "write", "removed"}
    [] p = 3        -> {"ok", "read", "write", "uni_ok", "uni_err"}
    [] OTHER        -> IF o.nodes THEN {"ok", "read", "write"} ELSE {"nonodes", "read"}

\* os.makedirs(d, exist_ok=True) raises when a file is in the way
CanMakedirs(d) == Ancestors[d] \cap DOMAIN fsFiles = {}

\* open(dest, "w") raises when dest is a directory
CanOpen(dest) == normpath[dest] \notin fsDirs

\* a write that leaves an existing file alone
PutIfAbsent(f, c) ==
  [p \in DOMAIN fsFiles \cup {f} |-> IF p \in DOMAIN fsFiles THEN fsFiles[p] ELSE c]

\* open(dest, "w") and the write: the file holds c, whatever it held
Put(f, c) == [p \in DOMAIN fsFiles \cup {f} |-> IF p = f THEN c ELSE fsFiles[p]]

\* a handler that ignores what happened to the object and counts it as a
\* failed file
AfterObjectCounted(n, result) == IF result \in {"ok", "nonodes"} THEN n ELSE n + 1

\* lines 97-98, 117-118, 138-147, 164-166: the handlers of an object print
\* and leave failed_files as it is
AfterObject(n, result) == n

\* the try block of one object of the pass's type, lines 84-98, 104-118,
\* 124-147 and 153-166: its effect on the file system by outcome
Extract ==
  /\ pc = "pass"
  /\ passNo \in Passes
  /\ Selected(passNo, extract_resources, extract_metadata)
  /\ Pending # {}
  /\ LET k    == CHOOSE n \in Pending : \A m \in Pending : n <= m
         item == Items(env, passNo)[k]
         o    == Env(env).objects[item.obj]
         d    == Dest(passNo, item)
         src  == [file |-> file_path, env |-> env, pass |-> passNo, idx |-> k]
         made == d[1]
         dest == normpath[d[2]]
     IN  /\ idx' = k
         /\ \E out \in Outcomes(passNo, o) :
               /\ out \in {"ok", "nonodes"} \/ CanFault
               /\ LET mk     == out \notin {"read", "nonodes"}
                      mkOk   == mk /\ CanMakedirs(made)
                      opened == mkOk /\ out # "data" /\ CanOpen(dest)
                      kept   == opened /\ (out = "removed" => dest \in DOMAIN fsFiles)
                      full   == opened /\ out \in {"ok", "uni_ok"}
                      result == IF out \in {"read", "nonodes"} THEN out
                                ELSE IF ~mkOk THEN "makedirs"
                                ELSE IF out = "data" THEN out
                                ELSE IF ~opened THEN "open"
                                ELSE out
                  IN  /\ fsDirs' = IF mkOk THEN fsDirs \cup Ancestors[made] ELSE fsDirs
                      /\ fsFiles' = IF kept
                                    THEN Put(dest, Written(passNo, src, full))
                                    ELSE fsFiles
                      /\ objLog' = Append(objLog,
                                     [file |-> file_path, env |-> env, pass |-> passNo,
                                      idx |-> k, outcome |-> result, dest |-> dest])
                      /\ failed_files' = AfterObject(failed_files, result)
  /\ UNCHANGED <<mainVars, walkVars, file_name, env, extract_resources,
                 extract_metadata, passNo, pc, astc_count,
                 visitLog, loadLog, failLog>>

Next ==
  \/ ParseError
  \/ Main
  \/ WalkDir
  \/ Summary
  \/ NextFile
  \/ FilesDone
  \/ LoadOk
  \/ LoadRaises
  \/ PassSkip
  \/ PassRaises
  \/ PassEnd
  \/ Extract

Spec == Init /\ [][Next]_vars

\* the script is sequential: whenever it can take a step it takes one
FairSpec == Spec /\ WF_vars(Next)
(* ------------------------------------------------------------------ *)
(* What the claims speak of                                           *)
(* ------------------------------------------------------------------ *)

Done == pc = "done"

Range(s) == { s[i] : i \in DOMAIN s }

\* p lies below the directory d
Under(d, p) == Len(p) > Len(d) + 1 /\ SubSeq(p, 1, Len(d) + 1) = d \o <<SEP>>

HasASTC(path) == Contains[ASTC, basename[path]]

HasData(path) == Contains[<<"_","_","d","a","t","a">>, basename[path]]

NameHas(word, path) == Contains[word, lower[basename[path]]]

LoadedPaths == { loadLog[i].file : i \in DOMAIN loadLog }

\* the files the run wrote and that exist
Outputs == { p \in DOMAIN fsFiles : fsFiles[p].kind # "original" }

IsFault(e) == e.outcome \notin {"ok", "nonodes"}

Succeeded(e) == e.outcome \in {"ok", "uni_ok"}

\* the outcomes in which the destination was opened for writing
OpenedDest(e) == e.outcome \in {"ok", "uni_ok", "write", "uni_err", "removed"}

ObjectOf(e) == Env(e.env).objects[Items(e.env, e.pass)[e.idx].obj]

\* the asset path of the object: its key in the container; a MonoBehaviour
\* is taken from env.objects and has one only if the container names it
AssetPath(e) ==
  IF e.pass # 4 THEN Env(e.env).container[e.idx].path
  ELSE LET c == Env(e.env).container
           n == { k \in DOMAIN c : c[k].obj = e.idx }
       IN  IF n = {} THEN <<>> ELSE c[CHOOSE k \in n : TRUE].path

Stem(path) == splitext[basename[path]][1]

\* the exception of the file, if the handler of the file caught one, as the
\* pass it was raised in (0: the loader); 5 if there was none
FailedAt(f) ==
  IF \E i \in DOMAIN failLog : failLog[i].file = f
  THEN failLog[CHOOSE i \in DOMAIN failLog : failLog[i].file = f].at
  ELSE 5

Attempted(f) == { <<objLog[j].pass, objLog[j].idx>> : j \in { n \in DOMAIN objLog : objLog[n].file = f } }

\* the objects of environment e that the passes selected by (res, meta)
\* come to before pass `stop`
Due(e, res, meta, stop) ==
  { pk \in Passes \X (1..(Len(Env(e).objects) + Len(Env(e).container))) :
      /\ pk[1] < stop
      /\ Selected(pk[1], res, meta)
      /\ pk[2] <= Len(Items(e, pk[1]))
      /\ Env(e).objects[Items(e, pk[1])[pk[2]].obj].type = PassType[pk[1]] }

(* ------------------------------------------------------------------ *)
(* C1                                                                 *)
(* ------------------------------------------------------------------ *)

\* C1: no exception aborts the run. When the summary is reached, every file
\* of the tree under the input directory whose name holds "ASTC" was handed
\* to the loader, whatever failed before it; and of every file the loader
\* returned for, every object of every pass its name selects was attempted,
\* up to the pass (if any) in which an exception reached the handler of the
\* file, whatever happened to the objects before it.
C1_FailuresDoNotAbort ==
  Done =>
    /\ \A f \in tree :
          (Under(source_in, f.path) /\ HasASTC(f.path)) => f.path \in LoadedPaths
    /\ \A i \in DOMAIN loadLog :
          loadLog[i].ok =>
            Due(loadLog[i].content.env,
                NameHas(<<"r","e","s","o","u","r","c","e","s">>, loadLog[i].file),
                NameHas(<<"m","e","t","a","d","a","t","a">>, loadLog[i].file),
                FailedAt(loadLog[i].file)) \subseteq Attempted(loadLog[i].file)

\* C1 witness: the run ended after an object of the Texture2D pass raised and
\* a MonoBehaviour of the same file was attempted afterwards
C1_Witness ==
  /\ Done
  /\ \E j, n \in DOMAIN objLog :
        /\ j < n
        /\ objLog[j].file = objLog[n].file
        /\ objLog[j].pass = 1
        /\ IsFault(objLog[j])
        /\ objLog[n].pass = 4

(* ------------------------------------------------------------------ *)
(* C2                                                                 *)
(* ------------------------------------------------------------------ *)

\* the files during whose processing some exception was raised
FilesWithException ==
  { failLog[i].file : i \in DOMAIN failLog }
  \cup { objLog[j].file : j \in { n \in DOMAIN objLog : IsFault(objLog[n]) } }

\* C2 as claimed: at the summary the failed count is the number of matched
\* files during whose processing an exception was raised, at file level or
\* for one of its objects, and is at most the number of matched files.
C2_EveryFailureCounted ==
  Done => /\ failed_files = Cardinality(FilesWithException)
          /\ failed_files <= astc_count

\* C2 amended: the failed count is the number of matched files whose
\* exception reached the handler of the file (the loader, or the container of
\* a pass); an exception of one object is not counted; the count is at most
\* the number of matched files.
C2_FileLevelCounted ==
  /\ failed_files = Cardinality({ failLog[i].file : i \in DOMAIN failLog })
  /\ failed_files = Len(failLog)
  /\ failed_files <= astc_count

\* C2 witness: the run ended with an object that raised and no failed file
C2_Witness ==
  /\ Done
  /\ failed_files = 0
  /\ \E j \in DOMAIN objLog : IsFault(objLog[j])

(* ------------------------------------------------------------------ *)
(* C3                                                                 *)
(* ------------------------------------------------------------------ *)

\* C3 as claimed: every file the run wrote lies directly in the output
\* directory's subdirectory named after the type of its object, has the
\* extension of that type, and (for an object of the container) is the
\* asset name without its original extension.
C3_UnderOwnTypeDirectory ==
  \A p \in Outputs :
     LET t == fsFiles[p].src.pass
     IN  /\ dirname[p] = join[dest_out, TypeDir[t]]
         /\ splitext[p][2] = TypeExt[t]
         /\ t # 4 => Stem(p) = upper[Stem(AssetPath(fsFiles[p].src))]

(* ------------------------------------------------------------------ *)
(* C4                                                                 *)
(* ------------------------------------------------------------------ *)

\* C4 as claimed: every output file, of all four types, is named after the
\* asset path of its object (compared without regard to case).
C4_NamedAfterAssetPath ==
  \A p \in Outputs :
     /\ AssetPath(fsFiles[p].src) # <<>>
     /\ lower[Stem(p)] = lower[Stem(AssetPath(fsFiles[p].src))]

\* C4 amended: a Texture2D, Sprite or TextAsset file is named by the
\* upper-cased base name of the asset path with the last extension replaced
\* by the extension of the type; a MonoBehaviour file is <m_Name>.json, or
\* MONO_<path_id>.json when the typetree has no m_Name, whatever the asset
\* path is.
C4_NamedAfterPathOrName ==
  \A p \in Outputs :
     LET src == fsFiles[p].src
         o   == ObjectOf(src)
     IN  IF src.pass # 4
         THEN basename[p] = upper[Stem(AssetPath(src))] \o TypeExt[src.pass]
         ELSE p = normpath[join[join[dest_out, TypeDir[4]],
                     (IF o.named THEN o.m_Name ELSE MONO_ \o IntStr[o.path_id])
                     \o TypeExt[4]]]

\* C4 witness: the run ended with the file of a MonoBehaviour without m_Name
\* and the file of a TextAsset whose asset path has an extension
C4_Witness ==
  /\ Done
  /\ \E p \in Outputs : fsFiles[p].src.pass = 4 /\ ~ObjectOf(fsFiles[p].src).named
  /\ \E p \in Outputs :
        /\ fsFiles[p].src.pass = 3
        /\ splitext[AssetPath(fsFiles[p].src)][2] # <<>>

(* ------------------------------------------------------------------ *)
(* C5                                                                 *)
(* ------------------------------------------------------------------ *)

\* C5 as claimed: there is a second phase, so at the end of the run every
\* "__data" file under the output directory has been processed.
C5_DataFilesProcessed ==
  Done => \A p \in DOMAIN fsFiles : (Under(dest_out, p) /\ HasData(p)) => p \in LoadedPaths

\* C5 amended: the run has one phase. A file is loaded only when the one walk
\* reaches it and only if its own name holds "ASTC"; a "__data" file whose
\* name does not is never loaded, has no object attempted and is never
\* counted as failed.
C5_SinglePhase ==
  /\ \A i \in DOMAIN loadLog :
        loadLog[i].file \in Range(visitLog) /\ HasASTC(loadLog[i].file)
  /\ \A p \in DOMAIN fsFiles :
        (HasData(p) /\ ~HasASTC(p)) =>
           /\ p \notin LoadedPaths
           /\ \A j \in DOMAIN objLog : objLog[j].file # p
           /\ \A j \in DOMAIN failLog : failLog[j].file # p

\* C5 witness: the run ended, the walk reached a "__data" file under the
\* output directory, and the file was not loaded
C5_Witness ==
  /\ Done
  /\ \E p \in Range(visitLog) :
        Under(dest_out, p) /\ HasData(p) /\ p \notin LoadedPaths

(* ------------------------------------------------------------------ *)
(* C6                                                                 *)
(* ------------------------------------------------------------------ *)

\* C6: the two directories are set together. Without -file both are the
\* current directory; with it the input is the absolute, normalised form of
\* INPUT_DIR and the output that of OUTPUT_DIR; unpack_all_assets is called
\* exactly once, with that pair, and not at all while or unless the command
\* line is accepted.
C6_PairSetTogether ==
  IF pc \in {"main", "usage"}
  THEN calls = <<>>
  ELSE /\ calls = << <<source_in, dest_out>> >>
       /\ argv.given \in {"none", "pair"}
       /\ argv.given = "none" => source_in = getcwd /\ dest_out = getcwd
       /\ argv.given = "pair" =>
             /\ source_in = normpath[join[getcwd, argv.in]]
             /\ dest_out = normpath[join[getcwd, argv.out]]

\* C6 witness: the run ended with a -file pair whose directories were not
\* given in their absolute form
C6_Witness ==
  /\ Done
  /\ argv.given = "pair"
  /\ source_in # join[getcwd, argv.in]
  /\ dest_out # argv.out

(* ------------------------------------------------------------------ *)
(* C7                                                                 *)
(* ------------------------------------------------------------------ *)

MatchedVisits == SelectSeq(visitLog, HasASTC)

\* C7: the files handed to the loader are the visited files whose name holds
\* "ASTC" in that case, in the order of the visit, each once; the processed
\* count is their number; a file without it has no object attempted, is
\* the source of no output and is not counted as failed.
C7_LoadedIffASTC ==
  /\ \A i, j \in DOMAIN visitLog : visitLog[i] = visitLog[j] => i = j
  /\ Len(loadLog) = Len(MatchedVisits) - (IF pc = "load" THEN 1 ELSE 0)
  /\ \A i \in DOMAIN loadLog : loadLog[i].file = MatchedVisits[i]
  /\ astc_count = Len(MatchedVisits)
  /\ \A j \in DOMAIN objLog : HasASTC(objLog[j].file)
  /\ \A j \in DOMAIN failLog : HasASTC(failLog[j].file)
  /\ \A p \in Outputs : HasASTC(fsFiles[p].src.file)

\* C7 witness: the run ended having visited a file whose directory, but not
\* whose name, holds "ASTC", and having loaded another file
C7_Witness ==
  /\ Done
  /\ astc_count >= 1
  /\ \E p \in Range(visitLog) :
        /\ ~HasASTC(p)
        /\ Contains[ASTC, dirname[p]]
        /\ Contains[ASTC, upper[basename[p]]]
        /\ p \notin LoadedPaths

(* ------------------------------------------------------------------ *)
(* C8                                                                 *)
(* ------------------------------------------------------------------ *)

\* the types C8 names for a file name
Allowed(path) ==
  LET res  == NameHas(<<"r","e","s","o","u","r","c","e","s">>, path)
      meta == NameHas(<<"m","e","t","a","d","a","t","a">>, path)
  IN  IF res /\ ~meta THEN {"Texture2D", "Sprite"}
      ELSE IF meta /\ ~res THEN {"TextAsset"}
      ELSE IF res /\ meta THEN {"Texture2D", "Sprite", "TextAsset"}
      ELSE {"Texture2D", "Sprite", "TextAsset", "MonoBehaviour"}

\* the types environment e holds where the passes look for them
Present(e) ==
  ({ Env(e).objects[Env(e).container[k].obj].type : k \in DOMAIN Env(e).container }
     \ {"MonoBehaviour"})
  \cup { t \in {"MonoBehaviour"} : \E k \in DOMAIN Env(e).objects : Env(e).objects[k].type = t }

\* C8: the lower-cased file name alone decides the types extracted, as the
\* four cases of Allowed; the objects of a file are attempted in the order
\* Texture2D, Sprite, TextAsset, MonoBehaviour; a file that no exception of
\* its own stopped has every allowed type it holds attempted; and a
\* MonoBehaviour without typetree nodes is the source of no file.
C8_TypesByFileName ==
  /\ \A j \in DOMAIN objLog :
        /\ ObjectOf(objLog[j]).type = PassType[objLog[j].pass]
        /\ PassType[objLog[j].pass] \in Allowed(objLog[j].file)
        /\ (objLog[j].pass = 4 /\ ~ObjectOf(objLog[j]).nodes) => ~OpenedDest(objLog[j])
  /\ \A j, n \in DOMAIN objLog :
        (j < n /\ objLog[j].file = objLog[n].file) => objLog[j].pass <= objLog[n].pass
  /\ \A p \in Outputs : fsFiles[p].src.pass = 4 => ObjectOf(fsFiles[p].src).nodes
  /\ Done =>
       \A i \in DOMAIN loadLog :
          (loadLog[i].ok /\ FailedAt(loadLog[i].file) = 5) =>
             { PassType[pk[1]] : pk \in Attempted(loadLog[i].file) }
               = Allowed(loadLog[i].file) \cap Present(loadLog[i].content.env)

\* C8 witness: the run ended with a file whose name holds both words loaded
\* and its Texture2D, Sprite and TextAsset attempted
C8_Witness ==
  /\ Done
  /\ \E i \in DOMAIN loadLog :
        /\ NameHas(<<"r","e","s","o","u","r","c","e","s">>, loadLog[i].file)
        /\ NameHas(<<"m","e","t","a","d","a","t","a">>, loadLog[i].file)
        /\ ~Contains[<<"m","e","t","a","d","a","t","a">>, basename[loadLog[i].file]]
        /\ { pk[1] : pk \in Attempted(loadLog[i].file) } = {1, 2, 3}

(* ------------------------------------------------------------------ *)
(* C9                                                                 *)
(* ------------------------------------------------------------------ *)

\* C9: every run reaches the summary (or the usage error of argparse), also
\* when the output directory is the input directory or lies in it and files
\* the run wrote are reached by the walk.
C9_Terminates == <>(pc \in {"done", "usage"})

\* C9 witness: the run ended with the output directory in the walked tree
\* and with a file loaded that the run itself had written
C9_Witness ==
  /\ Done
  /\ dest_out = source_in \/ Under(source_in, dest_out)
  /\ \E i \in DOMAIN loadLog :
        /\ loadLog[i].content.kind # "original"
        /\ HasASTC(loadLog[i].file)

(* ------------------------------------------------------------------ *)
(* C10                                                                *)
(* ------------------------------------------------------------------ *)

\* what the destination of an object depends on, by C10
Key(e) ==
  IF e.pass # 4 THEN upper[Stem(AssetPath(e))]
  ELSE IF ObjectOf(e).named THEN ObjectOf(e).m_Name
  ELSE MONO_ \o IntStr[ObjectOf(e).path_id]

SameObject(src, e) == src.file = e.file /\ src.pass = e.pass /\ src.idx = e.idx

Last(S) == CHOOSE j \in S : \A n \in S : n <= j

\* C10 as claimed: after the run each output file holds the content of the
\* last object that was successfully written to it.
C10_HoldsLastSuccess ==
  Done =>
    \A p \in Outputs :
       LET ok == { j \in DOMAIN objLog : objLog[j].dest = p /\ Succeeded(objLog[j]) }
       IN  /\ ok # {}
           /\ SameObject(fsFiles[p].src, objLog[Last(ok)])
           /\ fsFiles[p].full

\* C10 amended: the destination depends only on the type and the key (the
\* upper-cased base name of the asset path without its extension; m_Name or
\* MONO_<path_id> for a MonoBehaviour); each output file holds what the last
\* object that opened it for writing left there, complete if that write
\* succeeded and cut short if it failed after the file was opened; so there
\* are at most as many output files as objects that opened one.
C10_HoldsLastOpened ==
  /\ \A j, n \in DOMAIN objLog :
        (objLog[j].pass = objLog[n].pass /\ Key(objLog[j]) = Key(objLog[n]))
           => objLog[j].dest = objLog[n].dest
  /\ \A p \in Outputs :
        LET opened == { j \in DOMAIN objLog : objLog[j].dest = p /\ OpenedDest(objLog[j]) }
        IN  /\ opened # {}
            /\ SameObject(fsFiles[p].src, objLog[Last(opened)])
            /\ fsFiles[p].full = Succeeded(objLog[Last(opened)])
  /\ Cardinality(Outputs)
        <= Cardinality({ j \in DOMAIN objLog : OpenedDest(objLog[j]) })

\* C10 witness: the run ended with two objects of different bundles, whose
\* asset paths differ in directory and extension, written to one file that
\* holds the later one, and with fewer output files than successful writes
C10_Witness ==
  /\ Done
  /\ \E j, n \in DOMAIN objLog :
        /\ j < n
        /\ Succeeded(objLog[j]) /\ Succeeded(objLog[n])
        /\ objLog[j].file # objLog[n].file
        /\ dirname[AssetPath(objLog[j])] # dirname[AssetPath(objLog[n])]
        /\ objLog[j].dest = objLog[n].dest
        /\ objLog[n].dest \in Outputs
        /\ SameObject(fsFiles[objLog[n].dest].src, objLog[n])
  /\ Cardinality(Outputs) < Cardinality({ j \in DOMAIN objLog : Succeeded(objLog[j]) })
====
